---- MODULE Spec2Model ----
(***************************************************************************)
(* Listing transaction protocol of swapwithus-backend: create / update /   *)
(* delete of a listing with images, over a relational store (users,        *)
(* listing tables, images) and an object store.                            *)
(*                                                                         *)
(* Three generations of "create" live in the repository and are modelled   *)
(* side by side:                                                           *)
(*   "generic"  app/api/common.py   create_listing                         *)
(*   "homes"    app/api/homes.py    create_home_listing                    *)
(*   "main"     app/main.py         create_home_listing                    *)
(* update and delete are app/api/homes.py update_home_listing and          *)
(* delete_home_listing.                                                    *)
(*                                                                         *)
(* One handler runs at a time (call.pc); every await of the handler is a   *)
(* step.  Uploads of one batch are separate tasks that finish in any       *)
(* order and, as with asyncio.gather, keep running after a sibling failed. *)
(***************************************************************************)
EXTENDS Integers, Sequences, FiniteSets, TLC

\* ---------------------------------------------------------------- bounds
MaxFiles == 2          \* largest accepted batch that is enumerated
MaxCalls == 2          \* number of create calls in one behaviour
MaxFaults == 1         \* number of injected faults in one behaviour
MaxKeep == 1           \* existing images named in an update's metadata
MaxDel == 1            \* references named in an update's deleted list
MaxOwnerCalls == 3     \* number of calls in a behaviour of SpecOwnership
MaxBlobs == 3          \* objects in the bucket at the start of SpecStorage
MaxStorageCalls == 4   \* storage deletes in a behaviour of SpecStorage
MaxPrefixLen == 3      \* bytes of a url_prefix handed to the token maker
MaxUrlLen == 4         \* bytes of a URL presented with a token
MaxFeedCalls == 3      \* number of calls in a behaviour of SpecFeed
MaxUserCalls == 3      \* number of calls in a behaviour of SpecUsers
MaxRaceCalls == 3      \* calls in a behaviour of SpecRace: a create, two racing
MaxPage == 3           \* largest page number asked of browse
MaxPageLen == 2        \* largest page_size asked of browse (and 101)

\* ------------------------------------------------------ program constants
MaxImages == 20        \* "Maximum 20 images allowed per listing"
MinKeyBytes == 16      \* "if len(key) < 16: raise ValueError"
MaxPageSize == 100     \* "page_size: int = Query(20, ge=1, le=100)"

Users == {"u1", "u2"}

\* owner_firebase_uid values a request body can carry: the model field is
\* a plain "str", so the empty string validates as well
BodyOwners == Users \cup {""}
GenericTables == {"books", "caravans"}

\* table whitelist of QueryBuilder.build_insert_query
InsertWhitelist == {"homes", "users", "books"}

\* batch sizes offered to create: 0..MaxFiles and one oversized batch
FileCounts == (0 .. MaxFiles) \cup {MaxImages + 1}

VARIABLES
    db,        \* committed database: [users, listings, images]
    tx,        \* working copy of the open transaction, or NoTx
    store,     \* object references that exist in the object store
    call,      \* the handler in progress (or idle)
    callNo,    \* number of handler invocations so far
    nextId,    \* next listing id that uuid4() hands out
    faults     \* number of faults injected so far

vars == <<db, tx, store, call, callNo, nextId, faults>>

NoTx == [open |-> FALSE]

EmptyDb == [users |-> {}, listings |-> {}, images |-> {}]

\* object reference of the k-th upload task of invocation c
\* ({category}/{listing_id}_{timestamp}_{random}.{ext}: unique per upload)
Url(c, k) == <<c, k>>

IdleCall ==
    [pc |-> "idle", op |-> "none", variant |-> "none", caller |-> "none",
     bodyOwner |-> "none", table |-> "none", lid |-> 0, bodyLid |-> 0,
     title |-> "none", nfiles |-> 0, nnew |-> 0, meta |-> <<>>,
     deleted |-> <<>>,
     tasks |-> <<>>, uploaded |-> <<>>, records |-> {}, urls |-> {},
     idx |-> 0, result |-> 0, issued |-> <<>>, delFault |-> FALSE,
     cause |-> "none", txOpened |-> FALSE, conn |-> FALSE,
     okAtRaise |-> {}, faultAt |-> "none",
     committed |-> FALSE, snap |-> EmptyDb, startStore |-> {}]

\* ------------------------------------------------------------ pure parts
Range(q) == {q[k] : k \in DOMAIN q}


\* variant of GenericCountOk without the lower bound
GenericCountOkNoLowerBound(n) == n <= MaxImages

\* common.py: "if not images -> 400", "if len(images) > 20 -> 400"
GenericCountOk(n) == n >= 1 /\ n <= MaxImages

\* homes.py / main.py: "if len(images) > 20 -> 400",
\* "if len(images) != len(images_metadata) -> 400"
HomesCountOk(n, nmeta) == n <= MaxImages /\ n = nmeta

\* homes.py / main.py declare "images: List[UploadFile] = File(...)": a
\* request that carries no image file is answered 422 by the framework and
\* the handler body never runs.  create_listing of common.py is handed its
\* list by the route and checks it itself (GenericCountOk).
FilesRequired(variant) == variant \in {"homes", "main"}

\* main.py: "if user_data_dict.get('owner_firebase_uid') != user_uid -> 403"
MainOwnerOk(caller, bodyOwner) == bodyOwner = caller

\* variant of ListingOwner that trusts the request body
ListingOwnerFromBody(variant, caller, bodyOwner) == bodyOwner

\* owner written into the listing row
\* common.py stamps listing_data["owner_firebase_uid"] = user_uid;
\* homes.py and main.py keep the owner_firebase_uid parsed from the body
ListingOwner(variant, caller, bodyOwner) ==
    IF variant = "generic" THEN caller ELSE bodyOwner

\* owner written into the image rows and into the user upsert
\* common.py: user_uid; homes.py / main.py: user_data_dict owner (body)
ImageOwner(variant, caller, bodyOwner) ==
    IF variant = "generic" THEN caller ELSE bodyOwner

\* off-by-one variant of GenericIsHero
GenericIsHeroOffByOne(i) == i = 1

\* is_hero of the record built for 0-based input index i
\* common.py: "is_hero": i == 0
GenericIsHero(i) == i = 0

\* sort_order of the record built for 0-based input index i
\* common.py: "sort_order": i
GenericSortOrder(i) == i

\* image records built by create after gather returned
\* generic: hero / sort from the index; homes, main: from client metadata
\* (meta[k] = [hero, sort])
BuildCreateRecords(variant, lid, owner, uploaded, meta) ==
    { [lid |-> lid, url |-> uploaded[k], owner |-> owner,
       hero |-> IF variant = "generic" THEN GenericIsHero(k - 1)
                ELSE meta[k].hero,
       sort |-> IF variant = "generic" THEN GenericSortOrder(k - 1)
                ELSE meta[k].sort] : k \in 1 .. Len(uploaded) }

\* variant of GatherDone that returns at the first completed upload
GatherDoneFirst(tasks) ==
    \E k \in DOMAIN tasks : tasks[k] = "ok"

\* "await asyncio.gather(*upload_tasks)" returns once every task has
\* returned its reference
GatherDone(tasks) ==
    \A k \in DOMAIN tasks : tasks[k] = "ok"

\* variant of UploadFailurePc that swallows the upload error and goes on
\* to the persistence phase
UploadFailureContinues == "tx_begin"

\* where the handler goes when gather raised: the "except Exception as
\* upload_error" block (cleanup loop, then HTTPException 500)
UploadFailurePc == "cleanup"

\* value of uploaded_urls when asyncio.gather raised: the assignment
\* "uploaded_urls = await asyncio.gather(...)" never happened, so the
\* list is still the empty list it was initialised with
UploadedAtRaise(c, tasks) == <<>>

\* value of uploaded_urls when asyncio.gather returned: one reference per
\* task, in input order
UploadedAtReturn(c, tasks) == [k \in 1 .. Len(tasks) |-> Url(c, k)]

\* client metadata of a create: at most one hero mark, positional order
CreateMeta(n, heroAt) ==
    [k \in 1 .. n |-> [hero |-> (k = heroAt), sort |-> k - 1]]

\* ------------------------------------------------------------------ Init
Init ==
    /\ db = EmptyDb
    /\ tx = NoTx
    /\ store = {}
    /\ callNo = 0
    /\ nextId = 1
    /\ faults = 0
    /\ call = IdleCall

\* ------------------------------------------------------- create: entry
\* Everything the handler does before its first await: validation, owner
\* stamping, uuid generation, and the fan-out of one upload task per file.
StartCreate(variant, caller, bodyOwner, table, n, nmeta, heroAt) ==
    /\ call.pc = "idle"
    /\ callNo' = callNo + 1
    /\ LET missing == FilesRequired(variant) /\ n = 0
           ok == /\ ~missing
                 /\ CASE variant = "generic" -> GenericCountOk(n)
                      [] variant = "homes"   -> HomesCountOk(n, nmeta)
                      [] OTHER -> MainOwnerOk(caller, bodyOwner)
                                  /\ HomesCountOk(n, nmeta)
           code == IF missing THEN 422
                   ELSE IF variant = "main" /\ ~MainOwnerOk(caller, bodyOwner)
                   THEN 403 ELSE 400
           base == [IdleCall EXCEPT !.op = "create", !.variant = variant,
                       !.caller = caller, !.bodyOwner = bodyOwner,
                       !.table = table, !.nfiles = n,
                       !.snap = db, !.startStore = store]
       IN IF ok
          THEN /\ call' = [base EXCEPT !.pc = "uploading",
                              !.lid = nextId,
                              !.title = "t0",
                              !.meta = CreateMeta(nmeta, heroAt),
                              !.tasks = [k \in 1 .. n |-> "pending"]]
               /\ nextId' = nextId + 1
          ELSE /\ call' = [base EXCEPT !.pc = "done", !.result = code]
               /\ nextId' = nextId
    /\ UNCHANGED <<db, tx, store, faults>>

\* ------------------------------------------------------- upload tasks
\* upload_photo_to_storage finished: the object exists from now on
UploadOk(k) ==
    /\ call.pc # "idle"
    /\ k \in DOMAIN call.tasks
    /\ call.tasks[k] = "pending"
    /\ call' = [call EXCEPT !.tasks[k] = "ok"]
    /\ store' = store \cup {Url(callNo, k)}
    /\ UNCHANGED <<db, tx, callNo, nextId, faults>>

\* upload_photo_to_storage raised (storage error, timeout, bad image)
UploadFail(k) ==
    /\ call.pc # "idle"
    /\ k \in DOMAIN call.tasks
    /\ call.tasks[k] = "pending"
    /\ faults < MaxFaults
    /\ faults' = faults + 1
    /\ call' = [call EXCEPT !.tasks[k] = "failed"]
    /\ UNCHANGED <<db, tx, store, callNo, nextId>>

\* asyncio.gather returned: every task succeeded
GatherReturn ==
    /\ call.pc = "uploading"
    /\ call.op = "create"
    /\ GatherDone(call.tasks)
    /\ LET up == UploadedAtReturn(callNo, call.tasks)
       IN call' = [call EXCEPT
                     !.pc = "tx_begin",
                     !.uploaded = up,
                     !.urls = {up[k] : k \in DOMAIN up},
                     !.records = BuildCreateRecords(call.variant, call.lid,
                                    ImageOwner(call.variant, call.caller,
                                               call.bodyOwner),
                                    up, call.meta)]
    /\ UNCHANGED <<db, tx, store, callNo, nextId, faults>>

\* asyncio.gather raised: some task failed; siblings keep running.
\* The "except Exception as upload_error" block then walks uploaded_urls.
GatherRaise ==
    /\ call.pc = "uploading"
    /\ \E k \in DOMAIN call.tasks : call.tasks[k] = "failed"
    /\ call' = [call EXCEPT !.pc = UploadFailurePc, !.cause = "upload",
                   !.uploaded = UploadedAtRaise(callNo, call.tasks),
                   !.okAtRaise = {Url(callNo, k) : k \in
                        {j \in DOMAIN call.tasks : call.tasks[j] = "ok"}},
                   !.idx = 1]
    /\ UNCHANGED <<db, tx, store, callNo, nextId, faults>>

\* ------------------------------------------- create: persistence phase
\* the Listing row the create inserts (gid and gowner remember the
\* generated id and the owner the row was created with)
NewListingRow(c) ==
    [id |-> c.lid, gid |-> c.lid,
     owner |-> ListingOwner(c.variant, c.caller, c.bodyOwner),
     gowner |-> ListingOwner(c.variant, c.caller, c.bodyOwner),
     table |-> c.table, title |-> c.title]

\* "async with get_pool().acquire() as conn: async with conn.transaction():"
TxBegin ==
    /\ call.pc = "tx_begin"
    /\ tx' = [open |-> TRUE, users |-> db.users, listings |-> db.listings,
              images |-> db.images]
    /\ call' = [call EXCEPT !.pc = "tx_user", !.txOpened = TRUE,
                   !.conn = TRUE]
    /\ UNCHANGED <<db, store, callNo, nextId, faults>>

\* whether "conn.execute(create_user_query, ...)" passes as many arguments
\* as the statement has placeholders ($1..$4): common.py and main.py pass
\* four; homes.py passes five (profile_image twice), which the driver
\* refuses ("the server expects 4 arguments for this query, 5 were
\* passed") before anything is sent
UserUpsertArgsMatch(variant) == variant # "homes"

\* INSERT INTO users ... ON CONFLICT (owner_firebase_uid) DO NOTHING
TxUser ==
    /\ call.pc = "tx_user"
    /\ IF UserUpsertArgsMatch(call.variant)
       THEN /\ tx' = [tx EXCEPT !.users = @ \cup
                        {ImageOwner(call.variant, call.caller,
                                    call.bodyOwner)}]
            /\ call' = [call EXCEPT !.pc = "tx_listing"]
       ELSE /\ tx' = NoTx
            /\ call' = [call EXCEPT !.pc = "cleanup", !.cause = "persist",
                           !.idx = 1, !.conn = FALSE]
    /\ UNCHANGED <<db, store, callNo, nextId, faults>>

\* variant of ListingInsertInTx: every generation inserts the Listing
\* row through a second connection
ListingInsertNeverInTx(variant) == FALSE

\* the statement that inserts the Listing row is run on the transaction's
\* connection (common.py, homes.py: conn.execute) or on a second pooled
\* connection that commits it at once (main.py:
\* db_manager.create_record_in_table(_db_pool, ...), "async with
\* pool.acquire() as conn: await conn.execute(query, *values)")
ListingInsertInTx(variant) == variant # "main"

\* insert of the Listing row; a table outside the whitelist raises
\* ValueError, which takes the handler's "except Exception" path
TxListing ==
    /\ call.pc = "tx_listing"
    /\ IF call.table \in InsertWhitelist
       THEN /\ tx' = [tx EXCEPT !.listings = @ \cup {NewListingRow(call)}]
            /\ db' = IF ListingInsertInTx(call.variant) THEN db
                     ELSE [db EXCEPT !.listings = @ \cup {NewListingRow(call)}]
            /\ call' = [call EXCEPT !.pc = "tx_images"]
       ELSE /\ tx' = NoTx
            /\ db' = db
            /\ call' = [call EXCEPT !.pc = "cleanup", !.cause = "persist",
                           !.idx = 1, !.conn = FALSE]
    /\ UNCHANGED <<store, callNo, nextId, faults>>

\* which statement "conn.executemany(insert_query, image_data)" runs:
\* common.py (insert_image_query) and main.py (insert_query) run the
\* INSERT INTO images; homes.py rebinds insert_query to the INSERT INTO
\* homes built by QueryBuilder before the executemany, so the images
\* statement is never run there
ImagesStmtIsImages(variant) == variant # "homes"

\* bulk insert of the image records
TxImages ==
    /\ call.pc = "tx_images"
    /\ IF ImagesStmtIsImages(call.variant)
       THEN /\ tx' = [tx EXCEPT !.images = @ \cup call.records]
            /\ call' = [call EXCEPT !.pc = "tx_commit"]
       ELSE \* homes INSERT fed with 8-column image tuples: raises
            /\ tx' = NoTx
            /\ call' = [call EXCEPT !.pc = "cleanup", !.cause = "persist",
                           !.idx = 1, !.conn = FALSE]
    /\ UNCHANGED <<db, store, callNo, nextId, faults>>

\* leaving "async with conn.transaction()" without exception: COMMIT
TxCommit ==
    /\ call.pc = "tx_commit"
    /\ call.op = "create"
    /\ db' = [users |-> tx.users, listings |-> tx.listings,
              images |-> tx.images]
    /\ tx' = NoTx
    /\ call' = [call EXCEPT !.pc = "done", !.result = 201,
                   !.conn = FALSE, !.committed = TRUE]
    /\ UNCHANGED <<store, callNo, nextId, faults>>

TxPcs == {"tx_begin", "tx_user", "tx_listing", "tx_images", "tx_commit",
          "utx_begin", "utx_listing", "utx_delete", "utx_upsert",
          "utx_commit", "dtx_begin", "dtx_select", "dtx_row", "dtx_commit"}

\* a database statement (or acquire / begin / commit) raises: the
\* transaction context manager rolls back and the exception reaches the
\* handler's "except Exception" block
TxFault ==
    /\ call.pc \in TxPcs
    /\ faults < MaxFaults
    /\ faults' = faults + 1
    /\ tx' = NoTx
    /\ call' = [call EXCEPT !.pc = "cleanup", !.cause = "persist",
                   !.idx = 1, !.conn = FALSE, !.faultAt = call.pc]
    /\ UNCHANGED <<db, store, callNo, nextId>>

\* ------------------------------------------------ compensating deletes
\* a reference that is not a URL of the bucket (another host, a CDN URL,
\* free text): it does not contain "storage.googleapis.com/<bucket>/"
NotBucketUrl(j) == <<j, 0, 0>>

\* "public_url.split(f'storage.googleapis.com/{bucket_name}/')[1]" finds a
\* second element
ParsesAsBucketUrl(ref) == Len(ref) = 2

\* what the body of delete_image_from_storage's try block raises:
\* IndexError when the split has no second element, NotFound when
\* blob.delete() finds no such object, another storage error when the
\* call fails (gcsRaises), nothing otherwise
DeleteAttempt(ref, st, gcsRaises) ==
    IF ~ParsesAsBucketUrl(ref) THEN "IndexError"
    ELSE IF ref \notin st THEN "NotFound"
    ELSE IF gcsRaises THEN "GoogleAPIError"
    ELSE "none"

\* variant of ExceptCatches: only the missing object is a soft failure
ExceptCatchesNotFoundOnly(exc) == exc = "NotFound"

\* "except Exception as e: ... return False" catches every exception of
\* the try block
ExceptCatches(exc) == TRUE

\* delete_image_from_storage(public_url): the value it returns, the
\* exception that leaves it ("none" when it returns) and the object store
\* afterwards
DeleteImageFromStorage(ref, st, gcsRaises) ==
    LET exc == DeleteAttempt(ref, st, gcsRaises)
    IN IF exc = "none"
       THEN [ret |-> TRUE, raised |-> "none", store |-> st \ {ref}]
       ELSE IF ExceptCatches(exc)
       THEN [ret |-> FALSE, raised |-> "none", store |-> st]
       ELSE [ret |-> FALSE, raised |-> exc, store |-> st]

\* variant of CleanupList that misses the first uploaded reference
CleanupListSkipsFirst(c) == SubSeq(c.uploaded, 2, Len(c.uploaded))

\* the references the cleanup loops walk: "for url in uploaded_urls"
CleanupList(c) == c.uploaded

\* variant of CleanupGoesOn: the first failed delete ends the loop
CleanupStopsAtFailure(succeeded) == succeeded

\* whether the cleanup loop goes on to the next reference after a delete
\* that returned True / False: the result is not looked at, and an
\* exception would be caught and logged inside the loop
CleanupGoesOn(succeeded) == TRUE

\* delete_image_from_storage(url) inside the cleanup loops: it returns
\* True after blob.delete(), False (logged) when the delete raised
CleanupDelete(succeeds) ==
    /\ call.pc = "cleanup"
    /\ call.idx <= Len(CleanupList(call))
    /\ LET url == CleanupList(call)[call.idx]
       IN /\ succeeds => url \in store
          /\ (~succeeds /\ url \in store) => faults < MaxFaults
          /\ faults' = IF ~succeeds /\ url \in store THEN faults + 1
                        ELSE faults
          /\ LET o == DeleteImageFromStorage(url, store, ~succeeds)
             IN /\ store' = o.store
                /\ call' = [call EXCEPT
                               !.idx = IF CleanupGoesOn(o.ret) THEN @ + 1
                                       ELSE Len(CleanupList(call)) + 1,
                               !.issued = Append(@, url),
                               !.delFault = @ \/ ~o.ret]
    /\ UNCHANGED <<db, tx, callNo, nextId>>

\* end of the cleanup loop: "raise HTTPException(500, ...)"
CleanupEnd ==
    /\ call.pc = "cleanup"
    /\ call.idx > Len(CleanupList(call))
    /\ call' = [call EXCEPT !.pc = "done", !.result = 500]
    /\ UNCHANGED <<db, tx, store, callNo, nextId, faults>>

\* the response has been sent and every upload task has settled: the
\* next request may be served
Finish ==
    /\ call.pc = "done"
    /\ \A k \in DOMAIN call.tasks : call.tasks[k] # "pending"
    /\ call' = IdleCall
    /\ UNCHANGED <<db, tx, store, callNo, nextId, faults>>

\* ------------------------------------------------------------- update
\* blank public_url of a metadata item that announces a new file
Blank == <<0, 0>>

RECURSIVE SetToSeq(_)
\* some enumeration of a finite set (the order in which the client lists
\* references)
SetToSeq(S) ==
    IF S = {} THEN <<>>
    ELSE LET x == CHOOSE y \in S : TRUE IN <<x>> \o SetToSeq(S \ {x})

\* images_metadata of an update: the kept references first, then numNew
\* items with a blank public_url
UpdateMeta(keep, numNew, heroAt) ==
    LET ks == SetToSeq(keep)
    IN [k \in 1 .. (Len(ks) + numNew) |->
           [url |-> IF k <= Len(ks) THEN ks[k] ELSE Blank,
            hero |-> (k = heroAt), sort |-> k - 1]]

\* "sum(1 for m in images_metadata if m.get('public_url', '') == '')"
NewImagesCount(meta) ==
    Cardinality({k \in DOMAIN meta : meta[k].url = Blank})

\* variant of UpdateCountOk without the comparison with the file count
UpdateCountOkUpperOnly(meta, nfiles) == NewImagesCount(meta) <= MaxImages

\* "if new_images_count > 20 -> 400", "if len(images) != new_images_count
\* -> 400"
UpdateCountOk(meta, nfiles) ==
    NewImagesCount(meta) <= MaxImages /\ nfiles = NewImagesCount(meta)

\* "SELECT owner_firebase_uid FROM homes WHERE listing_id = $1"
StoredOwner(d, lid) ==
    IF \E r \in d.listings : r.table = "homes" /\ r.id = lid
    THEN (CHOOSE r \in d.listings : r.table = "homes" /\ r.id = lid).owner
    ELSE "none"

\* "if not listing_owner": fetchval gave None (no row) or an empty string
Falsy(v) == v \in {"none", ""}

\* the ownership check of update and delete: 0 when it passes
OwnerCheck(d, lid, caller) ==
    IF Falsy(StoredOwner(d, lid)) THEN 404
    ELSE IF StoredOwner(d, lid) # caller THEN 403
    ELSE 0

\* image records of an update: a blank item takes the next uploaded
\* reference (upload_idx), an existing item keeps its public_url; owner is
\* listing_data_dict["owner_firebase_uid"], listing_id the path parameter
BuildUpdateRecords(lid, owner, uploaded, meta) ==
    { [lid |-> lid,
       url |-> IF meta[k].url = Blank
               THEN uploaded[Cardinality({j \in 1 .. k : meta[j].url = Blank})]
               ELSE meta[k].url,
       owner |-> owner, hero |-> meta[k].hero, sort |-> meta[k].sort]
      : k \in DOMAIN meta }

\* UPDATE homes SET <every key of the body> WHERE listing_id = <path>:
\* build_update_query emits one SET clause per key of listing_data_dict,
\* owner_firebase_uid (required field) and listing_id (when given) included
UpdateListingRow(row, bodyOwner, bodyLid, title) ==
    [row EXCEPT !.owner = bodyOwner, !.title = title,
                !.id = IF bodyLid = 0 THEN @ ELSE bodyLid]

\* the UPDATE violates the primary key of homes
UpdateCollides(listings, lid, bodyLid) ==
    /\ bodyLid # 0
    /\ bodyLid # lid
    /\ \E r \in listings : r.table = "homes" /\ r.id = lid
    /\ \E r \in listings : r.table = "homes" /\ r.id = bodyLid

\* "DELETE FROM images WHERE public_url = $1 AND listing_id = $2" for
\* every deleted reference
DeleteImageRows(images, lid, deleted) ==
    {r \in images : ~(r.lid = lid /\ \E k \in DOMAIN deleted : deleted[k] = r.url)}

\* INSERT INTO images ... ON CONFLICT (public_url, listing_id) DO UPDATE
\* SET tag, caption, is_hero, sort_order
UpsertImages(images, records) ==
    LET hit(rec) == {r \in images : r.lid = rec.lid /\ r.url = rec.url}
    IN {r \in images : ~\E rec \in records :
                            rec.lid = r.lid /\ rec.url = r.url}
       \cup {[r EXCEPT !.hero = rec.hero, !.sort = rec.sort] :
                 <<r, rec>> \in {p \in images \X records :
                                   p[1].lid = p[2].lid /\ p[1].url = p[2].url}}
       \cup {rec \in records : hit(rec) = {}}

\* a row that the upsert inserts names an owner without a users row
\* (FOREIGN KEY (owner_firebase_uid) REFERENCES users)
UpsertBreaksFk(users, images, records) ==
    \E rec \in records :
        /\ ~\E r \in images : r.lid = rec.lid /\ r.url = rec.url
        /\ rec.owner \notin users

\* entry of update_home_listing: ownership check, parsing, count check,
\* fan-out of the uploads of the new files
StartUpdate(lid, caller, bodyOwner, bodyLid, keep, del, nNew, nfiles, h) ==
    /\ call.pc = "idle"
    /\ callNo' = callNo + 1
    /\ LET meta == UpdateMeta(keep, nNew, h)
           chk == OwnerCheck(db, lid, caller)
           base == [IdleCall EXCEPT !.op = "update", !.variant = "homes",
                       !.caller = caller, !.table = "homes", !.lid = lid,
                       !.nfiles = nfiles,
                       !.snap = db, !.startStore = store]
       IN call' = IF chk # 0
                  THEN [base EXCEPT !.pc = "done", !.result = chk]
                  ELSE IF ~UpdateCountOk(meta, nfiles)
                  THEN [base EXCEPT !.pc = "done", !.result = 400,
                           !.nnew = NewImagesCount(meta)]
                  ELSE [base EXCEPT !.pc = "uploading",
                           !.bodyOwner = bodyOwner, !.bodyLid = bodyLid,
                           !.title = "t1", !.meta = meta,
                           !.nnew = NewImagesCount(meta),
                           !.deleted = SetToSeq(del),
                           !.tasks = [k \in 1 .. NewImagesCount(meta)
                                         |-> "pending"]]
    /\ UNCHANGED <<db, tx, store, nextId, faults>>

\* gather returned (or there was nothing to upload): build the records
GatherReturnUpdate ==
    /\ call.pc = "uploading"
    /\ call.op = "update"
    /\ GatherDone(call.tasks)
    /\ LET up == UploadedAtReturn(callNo, call.tasks)
       IN call' = [call EXCEPT
                     !.pc = "utx_begin",
                     !.uploaded = up,
                     !.urls = {up[k] : k \in DOMAIN up},
                     !.records = BuildUpdateRecords(call.lid, call.bodyOwner,
                                                    up, call.meta)]
    /\ UNCHANGED <<db, tx, store, callNo, nextId, faults>>

UTxBegin ==
    /\ call.pc = "utx_begin"
    /\ tx' = [open |-> TRUE, users |-> db.users, listings |-> db.listings,
              images |-> db.images]
    /\ call' = [call EXCEPT !.pc = "utx_listing", !.txOpened = TRUE,
                   !.conn = TRUE]
    /\ UNCHANGED <<db, store, callNo, nextId, faults>>

\* UPDATE homes ...; a duplicate primary key raises
UTxListing ==
    /\ call.pc = "utx_listing"
    /\ IF UpdateCollides(tx.listings, call.lid, call.bodyLid)
       THEN /\ tx' = NoTx
            /\ call' = [call EXCEPT !.pc = "cleanup", !.cause = "persist",
                           !.idx = 1, !.conn = FALSE]
       ELSE /\ tx' = [tx EXCEPT !.listings =
                        {IF r.table = "homes" /\ r.id = call.lid
                         THEN UpdateListingRow(r, call.bodyOwner,
                                               call.bodyLid, call.title)
                         ELSE r : r \in @}]
            /\ call' = [call EXCEPT !.pc = "utx_delete"]
    /\ UNCHANGED <<db, store, callNo, nextId, faults>>

\* variant of StoreAfterRowDelete that removes the objects together with
\* the rows
StoreAfterRowDeleteEager(st, deleted) == st \ Range(deleted)

\* the object store after the in-transaction "DELETE FROM images" of the
\* deleted references: the statement removes rows only, the objects are
\* left for the loop that follows the transaction
StoreAfterRowDelete(st, deleted) == st

UTxDelete ==
    /\ call.pc = "utx_delete"
    /\ tx' = [tx EXCEPT !.images =
                 DeleteImageRows(@, call.lid, call.deleted)]
    /\ store' = StoreAfterRowDelete(store, call.deleted)
    /\ call' = [call EXCEPT !.pc = "utx_upsert"]
    /\ UNCHANGED <<db, callNo, nextId, faults>>

UTxUpsert ==
    /\ call.pc = "utx_upsert"
    /\ IF UpsertBreaksFk(tx.users, tx.images, call.records)
       THEN /\ tx' = NoTx
            /\ call' = [call EXCEPT !.pc = "cleanup", !.cause = "persist",
                           !.idx = 1, !.conn = FALSE]
       ELSE /\ tx' = [tx EXCEPT !.images = UpsertImages(@, call.records)]
            /\ call' = [call EXCEPT !.pc = "utx_commit"]
    /\ UNCHANGED <<db, store, callNo, nextId, faults>>

\* COMMIT, connection released; the storage deletes follow
UTxCommit ==
    /\ call.pc = "utx_commit"
    /\ db' = [users |-> tx.users, listings |-> tx.listings,
              images |-> tx.images]
    /\ tx' = NoTx
    /\ call' = [call EXCEPT !.pc = "post_delete", !.idx = 1,
                   !.conn = FALSE, !.committed = TRUE]
    /\ UNCHANGED <<store, callNo, nextId, faults>>

\* ------------------------------------------------------------- delete
\* entry of delete_home_listing: ownership check on its own connection
StartDelete(lid, caller) ==
    /\ call.pc = "idle"
    /\ callNo' = callNo + 1
    /\ LET chk == OwnerCheck(db, lid, caller)
           base == [IdleCall EXCEPT !.op = "delete", !.variant = "homes",
                       !.caller = caller, !.table = "homes", !.lid = lid,
                       !.snap = db, !.startStore = store]
       IN call' = IF chk # 0
                  THEN [base EXCEPT !.pc = "done", !.result = chk]
                  ELSE [base EXCEPT !.pc = "dtx_begin"]
    /\ UNCHANGED <<db, tx, store, nextId, faults>>

\* "async with get_pool().acquire() as conn: ... async with
\* conn.transaction():"
DTxBegin ==
    /\ call.pc = "dtx_begin"
    /\ tx' = [open |-> TRUE, users |-> db.users, listings |-> db.listings,
              images |-> db.images]
    /\ call' = [call EXCEPT !.pc = "dtx_select", !.txOpened = TRUE,
                   !.conn = TRUE]
    /\ UNCHANGED <<db, store, callNo, nextId, faults>>

\* "SELECT public_url FROM images WHERE listing_id = $1"
DTxSelect ==
    /\ call.pc = "dtx_select"
    /\ call' = [call EXCEPT !.pc = "dtx_row",
                   !.deleted = SetToSeq({r.url : r \in
                                   {q \in tx.images : q.lid = call.lid}})]
    /\ UNCHANGED <<db, tx, store, callNo, nextId, faults>>

\* rows of images that go away with the homes row: the images table
\* declares "No FK on listing_id", so none does
CascadedImages(images, lid) == {}

\* "DELETE FROM homes WHERE listing_id = $1"
DTxRow ==
    /\ call.pc = "dtx_row"
    /\ tx' = [tx EXCEPT
                !.listings = {r \in @ : ~(r.table = "homes" /\ r.id = call.lid)},
                !.images = @ \ CascadedImages(@, call.lid)]
    /\ call' = [call EXCEPT !.pc = "dtx_commit"]
    /\ UNCHANGED <<db, store, callNo, nextId, faults>>

\* COMMIT; the connection stays acquired: the storage loop is inside the
\* "async with get_pool().acquire() as conn" block
DTxCommit ==
    /\ call.pc = "dtx_commit"
    /\ db' = [users |-> tx.users, listings |-> tx.listings,
              images |-> tx.images]
    /\ tx' = NoTx
    /\ call' = [call EXCEPT !.pc = "post_delete", !.idx = 1,
                   !.committed = TRUE]
    /\ UNCHANGED <<store, callNo, nextId, faults>>

\* ---------------------------------------- storage deletes after commit
\* delete_image_from_storage(url) for the next reference of the list
PostDelete(succeeds) ==
    /\ call.pc = "post_delete"
    /\ call.idx <= Len(call.deleted)
    /\ LET url == call.deleted[call.idx]
       IN /\ succeeds => url \in store
          /\ (~succeeds /\ url \in store) => faults < MaxFaults
          /\ faults' = IF ~succeeds /\ url \in store THEN faults + 1
                        ELSE faults
          /\ LET o == DeleteImageFromStorage(url, store, ~succeeds)
             IN /\ store' = o.store
                /\ call' = [call EXCEPT !.idx = @ + 1,
                               !.issued = Append(@, url),
                               !.delFault = @ \/ ~o.ret]
    /\ UNCHANGED <<db, tx, callNo, nextId>>

\* end of the loop: the handler returns its success body
PostEnd ==
    /\ call.pc = "post_delete"
    /\ call.idx > Len(call.deleted)
    /\ call' = [call EXCEPT !.pc = "done", !.result = 200, !.conn = FALSE]
    /\ UNCHANGED <<db, tx, store, callNo, nextId, faults>>

\* ------------------------------------------------------------------ Next
\* Users are interchangeable: the first request of a behaviour is taken
\* to come from "u1" (every behaviour is a renaming of such a one)
FirstCaller(u) == callNo = 0 => u = "u1"

\* references a client can name: those of the image rows it was served
KnownUrls == {r.url : r \in db.images}

RECURSIVE SubsetsUpTo(_, _)
\* the subsets of S with at most n elements
SubsetsUpTo(S, n) ==
    IF n = 0 THEN {{}}
    ELSE LET P == SubsetsUpTo(S, n - 1)
         IN P \cup {p \cup {x} : p \in P, x \in S}

Next ==
    \/ \E u \in Users, b \in Users, t \in GenericTables, n \in FileCounts :
          /\ callNo < MaxCalls
          /\ FirstCaller(u)
          /\ StartCreate("generic", u, b, t, n, 0, 0)
    \/ \E u \in Users, b \in Users, n \in FileCounts, m \in 0 .. MaxFiles :
          /\ callNo < MaxCalls
          /\ FirstCaller(u)
          /\ StartCreate("homes", u, b, "homes", n, m, 0)
    \/ \E u \in Users, b \in Users, n \in FileCounts, m \in 0 .. MaxFiles,
          h \in 0 .. 1 :
          /\ callNo < MaxCalls
          /\ FirstCaller(u)
          /\ StartCreate("main", u, b, "homes", n, m, h)
    \/ \E k \in 1 .. MaxFiles : UploadOk(k)
    \/ \E k \in 1 .. MaxFiles : UploadFail(k)
    \/ \E l \in 1 .. nextId, u \in Users :
          /\ callNo < MaxCalls
          /\ call.pc = "idle"
          /\ OwnerCheck(db, l, u) # 0
          /\ StartUpdate(l, u, u, 0, {}, {}, 0, 0, 0)
    \/ \E l \in 1 .. nextId, u \in Users :
          /\ callNo < MaxCalls
          /\ call.pc = "idle"
          /\ OwnerCheck(db, l, u) = 0
          /\ \E b \in BodyOwners, bl \in (0 .. nextId) \ {l},
                keep \in SubsetsUpTo(KnownUrls, MaxKeep),
                del \in SubsetsUpTo(KnownUrls, MaxDel),
                nn \in 0 .. MaxFiles, nf \in 0 .. MaxFiles, h \in 0 .. 1 :
                StartUpdate(l, u, b, bl, keep, del, nn, nf, h)
    \/ \E l \in 1 .. nextId, u \in Users :
          /\ callNo < MaxCalls
          /\ StartDelete(l, u)
    \/ GatherReturn
    \/ GatherReturnUpdate
    \/ GatherRaise
    \/ TxBegin
    \/ TxUser
    \/ TxListing
    \/ TxImages
    \/ TxCommit
    \/ TxFault
    \/ UTxBegin
    \/ UTxListing
    \/ UTxDelete
    \/ UTxUpsert
    \/ UTxCommit
    \/ DTxBegin
    \/ DTxSelect
    \/ DTxRow
    \/ DTxCommit
    \/ \E ok \in BOOLEAN : PostDelete(ok)
    \/ PostEnd
    \/ \E ok \in BOOLEAN : CleanupDelete(ok)
    \/ CleanupEnd
    \/ Finish

\* the create protocol alone: create calls of the three generations
NextCreate ==
    \/ \E u \in Users, b \in Users, t \in GenericTables, n \in FileCounts :
          /\ callNo < MaxCalls
          /\ FirstCaller(u)
          /\ StartCreate("generic", u, b, t, n, 0, 0)
    \/ \E u \in Users, b \in Users, n \in FileCounts, m \in 0 .. MaxFiles :
          /\ callNo < MaxCalls
          /\ FirstCaller(u)
          /\ StartCreate("homes", u, b, "homes", n, m, 0)
    \/ \E u \in Users, b \in Users, n \in FileCounts, m \in 0 .. MaxFiles,
          h \in 0 .. 1 :
          /\ callNo < MaxCalls
          /\ FirstCaller(u)
          /\ StartCreate("main", u, b, "homes", n, m, h)
    \/ \E k \in 1 .. MaxFiles : UploadOk(k)
    \/ \E k \in 1 .. MaxFiles : UploadFail(k)
    \/ GatherReturn
    \/ GatherRaise
    \/ TxBegin
    \/ TxUser
    \/ TxListing
    \/ TxImages
    \/ TxCommit
    \/ TxFault
    \/ \E ok \in BOOLEAN : CleanupDelete(ok)
    \/ CleanupEnd
    \/ Finish

SpecCreate == Init /\ [][NextCreate]_vars

\* create, update and delete calls
Spec == Init /\ [][Next]_vars

\* the life of one homes listing under changes of its owner field: a
\* create through main.py with one image, then updates that carry no
\* image change, and deletes; no faults
NextOwnership ==
    \/ \E u \in Users :
          /\ callNo < MaxOwnerCalls
          /\ FirstCaller(u)
          /\ StartCreate("main", u, u, "homes", 1, 1, 1)
    \/ UploadOk(1)
    \/ GatherReturn
    \/ TxBegin
    \/ TxUser
    \/ TxListing
    \/ TxImages
    \/ TxCommit
    \/ \E l \in 1 .. nextId, u \in Users, b \in BodyOwners :
          /\ callNo < MaxOwnerCalls
          /\ StartUpdate(l, u, b, 0, {}, {}, 0, 0, 0)
    \/ GatherReturnUpdate
    \/ UTxBegin
    \/ UTxListing
    \/ UTxDelete
    \/ UTxUpsert
    \/ UTxCommit
    \/ \E l \in 1 .. nextId, u \in Users :
          /\ callNo < MaxOwnerCalls
          /\ StartDelete(l, u)
    \/ DTxBegin
    \/ DTxSelect
    \/ DTxRow
    \/ DTxCommit
    \/ \E ok \in BOOLEAN : PostDelete(ok)
    \/ PostEnd
    \/ Finish

SpecOwnership == Init /\ [][NextOwnership]_vars

\* ------------------------------------------- the storage delete alone
\* references handed to delete_image_from_storage: the objects of the
\* bucket, one bucket URL that never named an object, one other string
StorageRefs ==
    {Url(1, k) : k \in 1 .. MaxBlobs + 1} \cup {NotBucketUrl(1)}

InitStorage ==
    /\ db = EmptyDb
    /\ tx = NoTx
    /\ store = {Url(1, k) : k \in 1 .. MaxBlobs}
    /\ callNo = 0
    /\ nextId = 1
    /\ faults = 0
    /\ call = IdleCall

\* one call of delete_image_from_storage(ref); the call record keeps the
\* reference (issued), the store it found (startStore), whether it
\* returned False (delFault) and the exception that left it (cause)
StorageDelete(ref, gcsRaises) ==
    /\ call.pc = "idle"
    /\ callNo < MaxStorageCalls
    /\ callNo' = callNo + 1
    /\ LET o == DeleteImageFromStorage(ref, store, gcsRaises)
       IN /\ store' = o.store
          /\ call' = [IdleCall EXCEPT !.pc = "done", !.op = "storage_delete",
                         !.issued = <<ref>>, !.startStore = store,
                         !.delFault = ~o.ret, !.cause = o.raised]
    /\ UNCHANGED <<db, tx, nextId, faults>>

NextStorage ==
    \/ \E ref \in StorageRefs, g \in BOOLEAN : StorageDelete(ref, g)
    \/ Finish

SpecStorage == InitStorage /\ [][NextStorage]_vars

\* ------------------------------------------------- CDN signing (cdn_auth)
\* Text is a sequence of bytes, base64 text a sequence of sextets (the
\* index of the character in the URL-safe alphabet).
RECURSIVE B64Encode(_)
\* base64.urlsafe_b64encode(b).decode().rstrip("="): three bytes give
\* four sextets; a rest of one byte gives two, of two bytes three
B64Encode(b) ==
    IF Len(b) = 0 THEN <<>>
    ELSE IF Len(b) = 1 THEN <<b[1] \div 4, (b[1] % 4) * 16>>
    ELSE IF Len(b) = 2
    THEN <<b[1] \div 4, (b[1] % 4) * 16 + b[2] \div 16, (b[2] % 16) * 4>>
    ELSE <<b[1] \div 4, (b[1] % 4) * 16 + b[2] \div 16,
           (b[2] % 16) * 4 + b[3] \div 64, b[3] % 64>>
         \o B64Encode(SubSeq(b, 4, Len(b)))

RECURSIVE B64DecodeBytes(_)
\* the bytes of a sextet sequence whose length is not 1 modulo 4
B64DecodeBytes(t) ==
    IF Len(t) < 2 THEN <<>>
    ELSE IF Len(t) = 2 THEN <<t[1] * 4 + t[2] \div 16>>
    ELSE IF Len(t) = 3
    THEN <<t[1] * 4 + t[2] \div 16, (t[2] % 16) * 16 + t[3] \div 4>>
    ELSE <<t[1] * 4 + t[2] \div 16, (t[2] % 16) * 16 + t[3] \div 4,
           (t[3] % 4) * 64 + t[4]>>
         \o B64DecodeBytes(SubSeq(t, 5, Len(t)))

\* base64.urlsafe_b64decode(s + "=" * ((4 - len(s) % 4) % 4)): a text of
\* length 1 modulo 4 cannot be padded to valid base64 and raises
B64Decode(t) ==
    IF Len(t) % 4 = 1 THEN [ok |-> FALSE, bytes |-> <<>>]
    ELSE [ok |-> TRUE, bytes |-> B64DecodeBytes(t)]

\* a configured key: the environment variable is set or not (None)
UnsetKey == [set |-> FALSE, text |-> <<>>]
EmptyKey == [set |-> TRUE, text |-> <<>>]
ShortKey == [set |-> TRUE, text |-> <<1, 2, 3, 4>>]
UnpaddableKey == [set |-> TRUE, text |-> <<1, 2, 3, 4, 5>>]
GoodKey == [set |-> TRUE, text |-> [k \in 1 .. 22 |-> (7 * k) % 64]]
OtherGoodKey == [set |-> TRUE, text |-> [k \in 1 .. 22 |-> (11 * k) % 64]]

KeyConfigs ==
    {UnsetKey, EmptyKey, ShortKey, UnpaddableKey, GoodKey, OtherGoodKey}

\* _b64_any_to_bytes(s): "s = (s or '').strip()", URL-safe decode, and on
\* an exception the standard decode, which differs in the two last
\* characters of the alphabet only and raises for the same lengths
B64AnyToBytes(k) ==
    B64Decode(IF k.set THEN k.text ELSE <<>>)

\* hmac.new(key, msg, hashlib.sha1).digest(), taken as an ideal MAC: equal
\* digests only for equal key and message
Hmac(key, msg) == [key |-> key, msg |-> msg]

NoToken == [policy |-> [prefix |-> <<>>, exp |-> 0, keyName |-> "none"],
            sig |-> Hmac(<<>>, "none")]

\* variant of UrlPrefixField that loses the last byte of the prefix
UrlPrefixFieldTruncated(url_prefix) ==
    B64Encode(SubSeq(url_prefix, 1, Len(url_prefix) - 1))

\* "prefix_b64u = base64.urlsafe_b64encode(url_prefix.encode())
\*                  .decode().rstrip('=')"
UrlPrefixField(url_prefix) == B64Encode(url_prefix)

\* make_urlprefix_token(url_prefix, key_name, key_b64, expires_in): the
\* policy "URLPrefix=..&Expires=..&KeyName=.." and its signature; the
\* decoded key is used whatever its length
MakeUrlprefixToken(url_prefix, key_name, key_b64, exp) ==
    LET key == B64AnyToBytes(key_b64)
        policy == [prefix |-> UrlPrefixField(url_prefix), exp |-> exp,
                   keyName |-> key_name]
    IN IF ~key.ok
       THEN [raised |-> "binascii.Error", token |-> NoToken]
       ELSE [raised |-> "none",
             token |-> [policy |-> policy, sig |-> Hmac(key.bytes, policy)]]

\* sign_cdn_url(url, key_name, key_b64, expires_in): asserts the scheme,
\* refuses a key of fewer than 16 bytes, signs
\* "{url}{sep}Expires={exp}&KeyName={key_name}" (held here in the policy
\* field of the result)
SignCdnUrl(url, key_name, key_b64, exp) ==
    LET key == B64AnyToBytes(key_b64)
        sep == IF url.query THEN "&" ELSE "?"
        to_sign == [url |-> url, sep |-> sep, exp |-> exp,
                    keyName |-> key_name]
    IN IF url.scheme \notin {"https", "http"}
       THEN [raised |-> "AssertionError", token |-> NoToken]
       ELSE IF ~key.ok
       THEN [raised |-> "binascii.Error", token |-> NoToken]
       ELSE IF Len(key.bytes) < MinKeyBytes
       THEN [raised |-> "ValueError", token |-> NoToken]
       ELSE [raised |-> "none",
             token |-> [policy |-> to_sign, sig |-> Hmac(key.bytes, to_sign)]]

\* bytes of the texts: "/" and "a"
SignBytes == {47, 97}

RECURSIVE SeqsUpTo(_, _)
\* the sequences over S of length at most n
SeqsUpTo(S, n) ==
    IF n = 0 THEN {<<>>}
    ELSE LET P == SeqsUpTo(S, n - 1)
         IN P \cup {Append(q, x) : q \in P, x \in S}

\* URLs handed to sign_cdn_url: scheme, and whether they carry a query
SignUrls == [scheme : {"https", "ftp"}, query : BOOLEAN]

\* one call of make_urlprefix_token with the configured key
MakeTokenCall(url_prefix, key_b64, exp) ==
    /\ LET o == MakeUrlprefixToken(url_prefix, "cdn-key", key_b64, exp)
       IN call' = [pc |-> "signed", op |-> "make_urlprefix_token",
                   prefix |-> url_prefix, keyB64 |-> key_b64,
                   raised |-> o.raised, token |-> o.token]
    /\ UNCHANGED <<db, tx, store, callNo, nextId, faults>>

\* one call of sign_cdn_url with the configured key
SignUrlCall(url, key_b64, exp) ==
    /\ LET o == SignCdnUrl(url, "cdn-key", key_b64, exp)
       IN call' = [pc |-> "signed", op |-> "sign_cdn_url",
                   prefix |-> <<>>, keyB64 |-> key_b64,
                   raised |-> o.raised, token |-> o.token]
    /\ UNCHANGED <<db, tx, store, callNo, nextId, faults>>

NextSign ==
    \/ \E pre \in SeqsUpTo(SignBytes, MaxPrefixLen), k \in KeyConfigs,
          e \in 1 .. 2 : MakeTokenCall(pre, k, e)
    \/ \E u \in SignUrls, k \in KeyConfigs, e \in 1 .. 2 :
          SignUrlCall(u, k, e)

SpecSign == Init /\ [][NextSign]_vars

\* --------------------------------------- owner feed (get_home_listings)
RECURSIVE Perms(_)
\* the sequences that list every element of a finite set once
Perms(S) ==
    IF S = {} THEN {<<>>}
    ELSE UNION {{<<x>> \o p : p \in Perms(S \ {x})} : x \in S}

\* "ORDER BY sort_order": rows of equal sort_order come in any order
SortedBySortOrder(q) ==
    \A i, j \in DOMAIN q : i < j => q[i].sort <= q[j].sort

\* "SELECT * FROM homes WHERE owner_firebase_uid = $1"
FeedHomeRows(d, owner) ==
    {r \in d.listings : r.table = "homes" /\ r.owner = owner}

\* "FROM images WHERE owner_firebase_uid = $1 AND category = 'home' AND
\* listing_id = $2": every images row of a homes listing was written with
\* category "home" (create and update of homes.py / main.py)
FeedImageRows(d, owner, lid) ==
    {r \in d.images : r.owner = owner /\ r.lid = lid}

\* the signed_url column: the CDN host, the object path cut out of
\* public_url, "?" and the prefix token
SignedUrl(url) == [cdn |-> url, query |-> "token"]

\* hero_image_url of a listing without image rows: None
NoUrl == [cdn |-> Blank, query |-> "none"]

\* "hero_image = next((img for img in image_rows if img['is_hero']), None)",
\* "if hero_image: .. elif image_rows: image_rows[0] .. else: None"
HeroImageUrl(image_rows) ==
    LET heroes == {k \in DOMAIN image_rows : image_rows[k].hero}
    IN IF heroes # {}
       THEN SignedUrl(image_rows[CHOOSE k \in heroes :
                                    \A j \in heroes : k <= j].url)
       ELSE IF Len(image_rows) > 0 THEN SignedUrl(image_rows[1].url)
       ELSE NoUrl

\* "verify_user_owns_resource(request, owner_firebase_uid)"
FeedOwnerOk(caller, owner) == caller = owner

\* entry of get_home_listings: the caller may read its own feed only
StartFeed(caller, owner) ==
    /\ call.pc = "idle"
    /\ callNo' = callNo + 1
    /\ LET base == [pc |-> "feed_homes", op |-> "feed", caller |-> caller,
                    owner |-> owner, tasks |-> <<>>, bound |-> FALSE,
                    homeRows |-> <<>>, listings |-> <<>>, idx |-> 0,
                    result |-> 0, faultAt |-> "none", snap |-> db]
       IN call' = IF FeedOwnerOk(caller, owner) THEN base
                  ELSE [base EXCEPT !.pc = "done", !.result = 403]
    /\ UNCHANGED <<db, tx, store, nextId, faults>>

\* "home_rows = await conn.fetch(query_home, ..)", "listings = []"
FeedHomes ==
    /\ call.pc = "feed_homes"
    /\ \E hr \in Perms(FeedHomeRows(db, call.owner)) :
          call' = [call EXCEPT !.pc = "feed_images", !.homeRows = hr,
                      !.bound = TRUE, !.idx = 1]
    /\ UNCHANGED <<db, tx, store, callNo, nextId, faults>>

\* one turn of "for home_row in home_rows": fetch the image rows, pick the
\* hero image, append the listing
FeedImages ==
    /\ call.pc = "feed_images"
    /\ call.idx <= Len(call.homeRows)
    /\ LET lid == call.homeRows[call.idx].id
       IN \E ir \in {q \in Perms(FeedImageRows(db, call.owner, lid)) :
                       SortedBySortOrder(q)} :
             call' = [call EXCEPT
                        !.idx = @ + 1,
                        !.listings = Append(@, [id |-> lid, images |-> ir,
                                                hero |-> HeroImageUrl(ir)])]
    /\ UNCHANGED <<db, tx, store, callNo, nextId, faults>>

\* the status after a query raised: "except Exception" logs, "finally:
\* return listings" answers with the list built so far (200); when the
\* first query raised, "listings" was never bound and the return itself
\* raises UnboundLocalError (500)
FeedResultAfterError(bound) == IF bound THEN 200 ELSE 500

\* a conn.fetch of the handler raises
FeedFault ==
    /\ call.pc \in {"feed_homes", "feed_images"}
    /\ call.pc = "feed_images" => call.idx <= Len(call.homeRows)
    /\ faults < MaxFaults
    /\ faults' = faults + 1
    /\ call' = [call EXCEPT !.pc = "done", !.faultAt = call.pc,
                   !.result = FeedResultAfterError(call.bound)]
    /\ UNCHANGED <<db, tx, store, callNo, nextId>>

\* the loop is over: "finally: return listings"
FeedReturn ==
    /\ call.pc = "feed_images"
    /\ call.idx > Len(call.homeRows)
    /\ call' = [call EXCEPT !.pc = "done", !.result = 200]
    /\ UNCHANGED <<db, tx, store, callNo, nextId, faults>>

\* ------------------------------------------------ browse (browse_homes)
\* "page: int = Query(1, ge=1)", "page_size: int = Query(20, ge=1, le=100)":
\* other values are answered 422 by the framework
BrowseArgsOk(page, page_size) ==
    page >= 1 /\ page_size >= 1 /\ page_size <= MaxPageSize

\* "SELECT COUNT(*) FROM homes"
BrowseCountRows(d) == Cardinality({r \in d.listings : r.table = "homes"})

\* "FROM homes h INNER JOIN images i ON i.listing_id = h.listing_id GROUP BY
\* h.listing_id": the homes rows that have an images row
BrowseJoinRows(d) ==
    {r \in d.listings : r.table = "homes"
                        /\ \E i \in d.images : i.lid = r.id}

RECURSIVE NewestFirst(_)
\* "ORDER BY h.created_at DESC": rows are created in the order of their
\* generated ids
NewestFirst(S) ==
    IF S = {} THEN <<>>
    ELSE LET x == CHOOSE y \in S : \A z \in S : y.gid >= z.gid
         IN <<x>> \o NewestFirst(S \ {x})

\* "LIMIT $2 OFFSET $3" with offset = (page - 1) * page_size
BrowsePage(d, page, page_size) ==
    LET all == NewestFirst(BrowseJoinRows(d))
        offset == (page - 1) * page_size
        last == IF offset + page_size < Len(all) THEN offset + page_size
                ELSE Len(all)
    IN SubSeq(all, offset + 1, last)

\* variant of TotalPages that rounds down
TotalPagesFloor(total_count, page_size) == total_count \div page_size

\* "math.ceil(total_count / page_size) if total_count > 0 else 0"
TotalPages(total_count, page_size) ==
    IF total_count > 0 THEN (total_count + page_size - 1) \div page_size
    ELSE 0

\* the body browse_homes returns: "if not homes_list" answers has_next
\* False, otherwise has_next = page < total_pages
BrowseResponse(homes_list, total_count, page, page_size) ==
    [homes |-> homes_list, page |-> page, page_size |-> page_size,
     total_items |-> total_count,
     total_pages |-> TotalPages(total_count, page_size),
     has_next |-> IF homes_list = <<>> THEN FALSE
                  ELSE page < TotalPages(total_count, page_size),
     has_previous |-> page > 1]

NoResponse == BrowseResponse(<<>>, 0, 0, 1)

\* entry of browse_homes
StartBrowse(page, page_size) ==
    /\ call.pc = "idle"
    /\ callNo' = callNo + 1
    /\ LET base == [pc |-> "browse_count", op |-> "browse", page |-> page,
                    pageSize |-> page_size, tasks |-> <<>>, total |-> 0,
                    resp |-> NoResponse, result |-> 0, faultAt |-> "none",
                    snap |-> db]
       IN call' = IF BrowseArgsOk(page, page_size) THEN base
                  ELSE [base EXCEPT !.pc = "done", !.result = 422]
    /\ UNCHANGED <<db, tx, store, nextId, faults>>

\* "total_count = await conn.fetchval(query_count)"
BrowseCount ==
    /\ call.pc = "browse_count"
    /\ call' = [call EXCEPT !.pc = "browse_fetch",
                   !.total = BrowseCountRows(db)]
    /\ UNCHANGED <<db, tx, store, callNo, nextId, faults>>

\* "homes_list = await conn.fetch(query_home, token_prefix, page_size,
\* offset)" and the response built from it
BrowseFetch ==
    /\ call.pc = "browse_fetch"
    /\ call' = [call EXCEPT
                   !.pc = "done", !.result = 200,
                   !.resp = BrowseResponse(
                               BrowsePage(db, call.page, call.pageSize),
                               call.total, call.page, call.pageSize)]
    /\ UNCHANGED <<db, tx, store, callNo, nextId, faults>>

\* a query of browse_homes raises: "except Exception" answers 500
BrowseFault ==
    /\ call.pc \in {"browse_count", "browse_fetch"}
    /\ faults < MaxFaults
    /\ faults' = faults + 1
    /\ call' = [call EXCEPT !.pc = "done", !.result = 500,
                   !.faultAt = call.pc]
    /\ UNCHANGED <<db, tx, store, callNo, nextId>>

\* homes listings made through main.py, changed by updates, read by the
\* owner feed and by browse
NextFeed ==
    \/ \E u \in Users, n \in 1 .. MaxFiles, h \in 0 .. 1 :
          /\ callNo < MaxFeedCalls
          /\ FirstCaller(u)
          /\ StartCreate("main", u, u, "homes", n, n, h)
    \/ \E k \in 1 .. MaxFiles : UploadOk(k)
    \/ GatherReturn
    \/ TxBegin
    \/ TxUser
    \/ TxListing
    \/ TxImages
    \/ TxCommit
    \/ \E l \in 1 .. nextId, u \in Users :
          /\ callNo < MaxFeedCalls
          /\ call.pc = "idle"
          /\ OwnerCheck(db, l, u) = 0
          /\ \E b \in Users,
                keep \in SubsetsUpTo(KnownUrls, MaxKeep),
                del \in SubsetsUpTo(KnownUrls, MaxDel),
                nn \in 0 .. 1, h \in 0 .. 1 :
                StartUpdate(l, u, b, 0, keep, del, nn, nn, h)
    \/ GatherReturnUpdate
    \/ UTxBegin
    \/ UTxListing
    \/ UTxDelete
    \/ UTxUpsert
    \/ UTxCommit
    \/ \E ok \in BOOLEAN : PostDelete(ok)
    \/ PostEnd
    \/ \E ok \in BOOLEAN : CleanupDelete(ok)
    \/ CleanupEnd
    \/ \E u \in Users, o \in Users :
          /\ callNo < MaxFeedCalls
          /\ StartFeed(u, o)
    \/ FeedHomes
    \/ FeedImages
    \/ FeedFault
    \/ FeedReturn
    \/ \E p \in 0 .. MaxPage, ps \in (0 .. MaxPageLen) \cup {MaxPageSize + 1} :
          /\ callNo < MaxFeedCalls
          /\ StartBrowse(p, ps)
    \/ BrowseCount
    \/ BrowseFetch
    \/ BrowseFault
    \/ Finish

SpecFeed == Init /\ [][NextFeed]_vars

\* --------------------------------------------- accounts (create_user)
\* "if user.owner_firebase_uid != user_uid: raise HTTPException(403, ..)"
CreateUserOwnerOk(caller, bodyOwner) == bodyOwner = caller

\* the statement QueryBuilder.build_insert_query builds for create_user,
\* "INSERT INTO users (..) VALUES (..)", has no ON CONFLICT clause: it
\* raises UniqueViolationError when a users row has the primary key
\* owner_firebase_uid already
UserInsertConflicts(users, uid) == uid \in users

\* entry of create_user
StartCreateUser(caller, bodyOwner) ==
    /\ call.pc = "idle"
    /\ callNo' = callNo + 1
    /\ LET base == [IdleCall EXCEPT !.op = "create_user",
                       !.caller = caller, !.bodyOwner = bodyOwner,
                       !.snap = db, !.startStore = store]
       IN call' = IF CreateUserOwnerOk(caller, bodyOwner)
                  THEN [base EXCEPT !.pc = "user_insert"]
                  ELSE [base EXCEPT !.pc = "done", !.result = 403]
    /\ UNCHANGED <<db, tx, store, nextId, faults>>

\* "await conn.execute(insert_query, *insert_values)" on a pooled
\* connection (autocommit), then 201; an exception is answered 500
UserInsert ==
    /\ call.pc = "user_insert"
    /\ IF UserInsertConflicts(db.users, call.bodyOwner)
       THEN /\ db' = db
            /\ call' = [call EXCEPT !.pc = "done", !.result = 500,
                           !.cause = "UniqueViolationError"]
       ELSE /\ db' = [db EXCEPT !.users = @ \cup {call.bodyOwner}]
            /\ call' = [call EXCEPT !.pc = "done", !.result = 201,
                           !.committed = TRUE]
    /\ UNCHANGED <<tx, store, callNo, nextId, faults>>

\* account-creating and listing-creating requests (create_listing of
\* common.py into the books table, one image)
NextUsers ==
    \/ \E u \in Users, b \in Users :
          /\ callNo < MaxUserCalls
          /\ FirstCaller(u)
          /\ StartCreateUser(u, b)
    \/ UserInsert
    \/ \E u \in Users, b \in Users :
          /\ callNo < MaxUserCalls
          /\ FirstCaller(u)
          /\ StartCreate("generic", u, b, "books", 1, 0, 0)
    \/ UploadOk(1)
    \/ GatherReturn
    \/ TxBegin
    \/ TxUser
    \/ TxListing
    \/ TxImages
    \/ TxCommit
    \/ Finish

SpecUsers == Init /\ [][NextUsers]_vars

\* ------------------- update and delete of one listing, both in flight
\* Two requests for the same listing_id are served concurrently; every
\* await of either handler is a step.  Statements run under READ
\* COMMITTED: each sees what is committed when it runs, and a statement
\* that writes the homes row waits while the other transaction holds the
\* row's lock.
\* the update's transaction holds the lock of the homes row
UpdHoldsRow(c) == c.upd.rowHit /\ c.upd.pc \in {"delete", "upsert", "commit"}

\* the delete's transaction holds the lock of the homes row
DelHoldsRow(c) == c.del.rowHit /\ c.del.pc = "commit"

HomesRowExists(d, lid) == \E r \in d.listings : r.table = "homes" /\ r.id = lid

\* both requests arrive
StartRace(lid, caller, bodyOwner, keep, del, nNew, h) ==
    /\ call.pc = "idle"
    /\ callNo' = callNo + 2
    /\ call' = [pc |-> "race", op |-> "race", tasks |-> <<>>,
                lid |-> lid, caller |-> caller, bodyOwner |-> bodyOwner,
                snap |-> db, startStore |-> store,
                upd |-> [pc |-> "check", no |-> callNo + 1,
                         meta |-> UpdateMeta(keep, nNew, h),
                         deleted |-> SetToSeq(del),
                         tasks |-> [k \in 1 .. nNew |-> "pending"],
                         uploaded |-> <<>>, records |-> {},
                         rowHit |-> FALSE, images |-> {}, idx |-> 0,
                         result |-> 0, checkedAt |-> EmptyDb],
                del |-> [pc |-> "check", deleted |-> <<>>,
                         rowHit |-> FALSE, idx |-> 0, result |-> 0,
                         committedAfterCheck |-> FALSE]]
    /\ UNCHANGED <<db, tx, store, nextId, faults>>

\* update: ownership check, parsing, count check (files = blank items)
RUCheck ==
    /\ call.pc = "race"
    /\ call.upd.pc = "check"
    /\ LET chk == OwnerCheck(db, call.lid, call.caller)
       IN call' = IF chk # 0
                  THEN [call EXCEPT !.upd.pc = "done", !.upd.result = chk]
                  ELSE [call EXCEPT !.upd.pc = "upload",
                                    !.upd.checkedAt = db]
    /\ UNCHANGED <<db, tx, store, callNo, nextId, faults>>

\* update: one upload task finishes
RUUpload(k) ==
    /\ call.pc = "race"
    /\ call.upd.pc = "upload"
    /\ k \in DOMAIN call.upd.tasks
    /\ call.upd.tasks[k] = "pending"
    /\ store' = store \cup {Url(call.upd.no, k)}
    /\ call' = [call EXCEPT !.upd.tasks[k] = "ok"]
    /\ UNCHANGED <<db, tx, callNo, nextId, faults>>

\* update: gather returned, the image records are built
RUGather ==
    /\ call.pc = "race"
    /\ call.upd.pc = "upload"
    /\ GatherDone(call.upd.tasks)
    /\ LET up == UploadedAtReturn(call.upd.no, call.upd.tasks)
       IN call' = [call EXCEPT
                     !.upd.pc = "listing",
                     !.upd.uploaded = up,
                     !.upd.records = BuildUpdateRecords(call.lid,
                                        call.bodyOwner, up, call.upd.meta)]
    /\ UNCHANGED <<db, tx, store, callNo, nextId, faults>>

\* update: BEGIN and "UPDATE homes SET .. WHERE listing_id = $n"; the
\* number of rows it changed is not looked at
RUListing ==
    /\ call.pc = "race"
    /\ call.upd.pc = "listing"
    /\ ~DelHoldsRow(call)
    /\ call' = [call EXCEPT !.upd.pc = "delete",
                   !.upd.rowHit = HomesRowExists(db, call.lid)]
    /\ UNCHANGED <<db, tx, store, callNo, nextId, faults>>

\* update: "DELETE FROM images WHERE public_url = $1 AND listing_id = $2"
RUDelete ==
    /\ call.pc = "race"
    /\ call.upd.pc = "delete"
    /\ call' = [call EXCEPT !.upd.pc = "upsert",
                   !.upd.images = DeleteImageRows(db.images, call.lid,
                                                  call.upd.deleted)]
    /\ UNCHANGED <<db, tx, store, callNo, nextId, faults>>

\* update: the upsert of the image records; a foreign-key violation rolls
\* the transaction back and leads to the cleanup loop
RUUpsert ==
    /\ call.pc = "race"
    /\ call.upd.pc = "upsert"
    /\ call' = IF UpsertBreaksFk(db.users, call.upd.images, call.upd.records)
               THEN [call EXCEPT !.upd.pc = "cleanup", !.upd.rowHit = FALSE,
                                 !.upd.idx = 1]
               ELSE [call EXCEPT !.upd.pc = "commit",
                                 !.upd.images = UpsertImages(@,
                                                    call.upd.records)]
    /\ UNCHANGED <<db, tx, store, callNo, nextId, faults>>

\* update: COMMIT
RUCommit ==
    /\ call.pc = "race"
    /\ call.upd.pc = "commit"
    /\ db' = [db EXCEPT
                !.listings = {IF call.upd.rowHit /\ r.table = "homes"
                                 /\ r.id = call.lid
                              THEN UpdateListingRow(r, call.bodyOwner, 0, "t1")
                              ELSE r : r \in @},
                !.images = call.upd.images]
    /\ call' = [call EXCEPT !.upd.pc = "post", !.upd.rowHit = FALSE,
                   !.upd.idx = 1]
    /\ UNCHANGED <<tx, store, callNo, nextId, faults>>

\* update: storage deletes of the deleted references, then the answer
RUPost ==
    /\ call.pc = "race"
    /\ call.upd.pc = "post"
    /\ IF call.upd.idx <= Len(call.upd.deleted)
       THEN LET o == DeleteImageFromStorage(call.upd.deleted[call.upd.idx],
                                            store, FALSE)
            IN /\ store' = o.store
               /\ call' = [call EXCEPT !.upd.idx = @ + 1]
       ELSE /\ store' = store
            /\ call' = [call EXCEPT !.upd.pc = "done", !.upd.result = 200]
    /\ UNCHANGED <<db, tx, callNo, nextId, faults>>

\* update: cleanup loop over uploaded_urls, then 500
RUCleanup ==
    /\ call.pc = "race"
    /\ call.upd.pc = "cleanup"
    /\ IF call.upd.idx <= Len(call.upd.uploaded)
       THEN LET o == DeleteImageFromStorage(call.upd.uploaded[call.upd.idx],
                                            store, FALSE)
            IN /\ store' = o.store
               /\ call' = [call EXCEPT !.upd.idx = @ + 1]
       ELSE /\ store' = store
            /\ call' = [call EXCEPT !.upd.pc = "done", !.upd.result = 500]
    /\ UNCHANGED <<db, tx, callNo, nextId, faults>>

\* delete: ownership check
RDCheck ==
    /\ call.pc = "race"
    /\ call.del.pc = "check"
    /\ LET chk == OwnerCheck(db, call.lid, call.caller)
       IN call' = IF chk # 0
                  THEN [call EXCEPT !.del.pc = "done", !.del.result = chk]
                  ELSE [call EXCEPT !.del.pc = "select"]
    /\ UNCHANGED <<db, tx, store, callNo, nextId, faults>>

\* delete: BEGIN and "SELECT public_url FROM images WHERE listing_id = $1"
RDSelect ==
    /\ call.pc = "race"
    /\ call.del.pc = "select"
    /\ call' = [call EXCEPT !.del.pc = "row",
                   !.del.deleted = SetToSeq({r.url : r \in
                                   {q \in db.images : q.lid = call.lid}})]
    /\ UNCHANGED <<db, tx, store, callNo, nextId, faults>>

\* delete: "DELETE FROM homes WHERE listing_id = $1"
RDRow ==
    /\ call.pc = "race"
    /\ call.del.pc = "row"
    /\ ~UpdHoldsRow(call)
    /\ call' = [call EXCEPT !.del.pc = "commit",
                   !.del.rowHit = HomesRowExists(db, call.lid)]
    /\ UNCHANGED <<db, tx, store, callNo, nextId, faults>>

\* delete: COMMIT
RDCommit ==
    /\ call.pc = "race"
    /\ call.del.pc = "commit"
    /\ db' = [db EXCEPT
                !.listings = {r \in @ : ~(call.del.rowHit /\ r.table = "homes"
                                          /\ r.id = call.lid)},
                !.images = @ \ CascadedImages(@, call.lid)]
    /\ call' = [call EXCEPT
                   !.del.pc = "post", !.del.rowHit = FALSE, !.del.idx = 1,
                   !.del.committedAfterCheck =
                       call.upd.pc \in {"upload", "listing"}]
    /\ UNCHANGED <<tx, store, callNo, nextId, faults>>

\* delete: storage deletes of the selected references, then the answer
RDPost ==
    /\ call.pc = "race"
    /\ call.del.pc = "post"
    /\ IF call.del.idx <= Len(call.del.deleted)
       THEN LET o == DeleteImageFromStorage(call.del.deleted[call.del.idx],
                                            store, FALSE)
            IN /\ store' = o.store
               /\ call' = [call EXCEPT !.del.idx = @ + 1]
       ELSE /\ store' = store
            /\ call' = [call EXCEPT !.del.pc = "done", !.del.result = 200]
    /\ UNCHANGED <<db, tx, callNo, nextId, faults>>

\* both calls have returned
RaceEnd ==
    /\ call.pc = "race"
    /\ call.upd.pc = "done"
    /\ call.del.pc = "done"
    /\ call' = [call EXCEPT !.pc = "done"]
    /\ UNCHANGED <<db, tx, store, callNo, nextId, faults>>

\* a homes listing made through main.py, then an update and a delete of
\* it by its owner, concurrently
NextRace ==
    \/ \E u \in Users, n \in 1 .. MaxFiles :
          /\ callNo + 3 <= MaxRaceCalls
          /\ FirstCaller(u)
          /\ StartCreate("main", u, u, "homes", n, n, 1)
    \/ \E k \in 1 .. MaxFiles : UploadOk(k)
    \/ GatherReturn
    \/ TxBegin
    \/ TxUser
    \/ TxListing
    \/ TxImages
    \/ TxCommit
    \/ Finish
    \/ \E l \in 1 .. nextId, u \in Users :
          /\ callNo >= 1
          /\ callNo + 2 <= MaxRaceCalls
          /\ call.pc = "idle"
          /\ OwnerCheck(db, l, u) = 0
          /\ \E b \in Users, keep \in SubsetsUpTo(KnownUrls, MaxKeep),
                del \in SubsetsUpTo(KnownUrls, MaxDel),
                nn \in 0 .. MaxFiles, h \in 0 .. 1 :
                StartRace(l, u, b, keep, del, nn, h)
    \/ RUCheck
    \/ \E k \in 1 .. MaxFiles : RUUpload(k)
    \/ RUGather
    \/ RUListing
    \/ RUDelete
    \/ RUUpsert
    \/ RUCommit
    \/ RUPost
    \/ RUCleanup
    \/ RDCheck
    \/ RDSelect
    \/ RDRow
    \/ RDCommit
    \/ RDPost
    \/ RaceEnd

SpecRace == Init /\ [][NextRace]_vars

\* ================================================================ claims
Returned == call.pc = "done"

\* Listing / Image rows of the listing the current call is about
ListingRows(d, lid) == {r \in d.listings : r.id = lid}
ImageRows(d, lid) == {r \in d.images : r.lid = lid}

C2_UploadFailureCompensated ==
    (Returned /\ call.cause = "upload")
    => \A u \in call.okAtRaise : u \in Range(call.issued)

\* C3: while the transaction of a create or update call is open no upload
\* of the call is still running and every reference of its image records
\* is an object of the store; and when a create has committed, every Image
\* row of the new listing names an object that exists in the store.
C3_UploadsBeforeTransaction ==
    /\ (tx.open /\ call.op \in {"create", "update"})
       => /\ \A k \in DOMAIN call.tasks : call.tasks[k] = "ok"
          /\ \A k \in DOMAIN call.tasks : Url(callNo, k) \in store
    /\ (Returned /\ call.op = "create" /\ call.result = 201)
       => \A r \in ImageRows(db, call.lid) : r.url \in store

C3_Witness ==
    /\ tx.open
    /\ call.op = "update"
    /\ Len(call.tasks) = 2

\* C4: the User upsert, the Listing insert and the Image inserts of a
\* create commit as one: once the call has returned, the Listing row of
\* its listing_id is in the database only together with its User row and
\* all its Image rows, and a create that failed has left no Listing row.
C4_CreateAtomic ==
    (Returned /\ call.op = "create")
    => /\ (ListingRows(db, call.lid) # {})
          => /\ call.records \subseteq db.images
             /\ ImageOwner(call.variant, call.caller, call.bodyOwner)
                    \in db.users
       /\ (call.result = 500) => ListingRows(db, call.lid) = {}

\* C5: a create that failed in its upload phase has written nothing: the
\* database is the one the call found.
C5_UploadFailureWritesNothing ==
    (call.op = "create" /\ call.cause = "upload")
    => /\ db = call.snap
       /\ ~call.txOpened

C5_Witness ==
    /\ Returned
    /\ call.op = "create"
    /\ call.cause = "upload"
    /\ call.okAtRaise # {}
    /\ call.snap.listings # {}

\* C6: a create with zero files or more than 20 files is answered with a
\* validation error (400 by the handler, 422 by the framework for a missing
\* file list; main.py answers 403 first when the body names another owner)
\* at once: no listing id was generated, no upload task was started,
\* database and object store are the ones the call found.  A call that
\* carries files is never answered 422, and a create_listing call with
\* 1..20 files is not answered 400.
C6_CountValidated ==
    call.op = "create"
    => /\ (call.nfiles = 0 \/ call.nfiles > MaxImages)
          => /\ Returned
             /\ call.result \in
                   {400, 422} \cup
                   (IF call.variant = "main" /\ call.bodyOwner # call.caller
                    THEN {403} ELSE {})
             /\ call.lid = 0
             /\ call.tasks = <<>>
             /\ db = call.snap
             /\ store = call.startStore
       /\ (call.nfiles >= 1) => call.result # 422
       /\ (call.variant = "generic" /\ call.nfiles \in 1 .. MaxImages)
          => call.result # 400

C6_Witness ==
    /\ Returned
    /\ call.op = "create"
    /\ call.variant = "generic"
    /\ call.nfiles = 0
    /\ call.result = 400
    /\ call.snap.listings # {}

C8_FirstImageIsHero ==
    (/\ Returned
     /\ call.op = "create"
     /\ call.variant = "generic"
     /\ call.result = 201)
    => /\ \A k \in 1 .. call.nfiles :
            \E r \in ImageRows(db, call.lid) :
                /\ r.url = Url(callNo, k)
                /\ r.sort = k - 1
                /\ r.hero = (k = 1)
       /\ Cardinality(ImageRows(db, call.lid)) = call.nfiles
       /\ {r.url : r \in {q \in ImageRows(db, call.lid) : q.hero}}
              = {Url(callNo, 1)}

C8_Witness ==
    /\ Returned
    /\ call.op = "create"
    /\ call.variant = "generic"
    /\ call.result = 201
    /\ call.nfiles = 2

C10_ListingIdImmutable ==
    \A r \in db.listings : r.id = r.gid

\* C11: every Listing row has the owner it was created with: no update
\* changes the stored owner, whatever owner the update's body names.
C11_OwnerSetOnce ==
    \A r \in db.listings : r.owner = r.gowner

\* a rejected call has touched nothing: no upload task, no transaction, no
\* row changed, no object-store delete issued
Untouched ==
    /\ call.tasks = <<>>
    /\ ~call.txOpened
    /\ db = call.snap
    /\ store = call.startStore
    /\ call.issued = <<>>

\* homes rows that had the call's listing_id when the call started
TargetRows == {r \in call.snap.listings : r.table = "homes" /\ r.id = call.lid}

C13_CountMismatchRejected ==
    (call.op = "update" /\ OwnerCheck(call.snap, call.lid, call.caller) = 0)
    => /\ (call.nnew # call.nfiles)
          => (Returned /\ call.result = 400 /\ Untouched)
       /\ (call.nnew = call.nfiles /\ call.nnew <= MaxImages)
          => call.result # 400

\* one existing item and one new item with exactly one file: accepted
C13_Witness ==
    /\ Returned
    /\ call.op = "update"
    /\ call.result = 200
    /\ call.nnew = 1
    /\ call.nfiles = 1
    /\ Len(call.meta) = 2
    /\ Cardinality(ImageRows(db, call.lid)) = 2

\* C14: in an update, a delete of an object named in deleted_references is
\* issued only after the update's transaction has committed; as long as
\* the transaction has not committed, and so whenever the update fails
\* (upload or transaction), every such object is still in the store.
C14_DeleteAfterCommit ==
    (call.op = "update")
    => /\ (\E k \in DOMAIN call.issued : call.issued[k] \in Range(call.deleted))
          => call.committed
       /\ (~call.committed)
          => \A u \in Range(call.deleted) :
                 u \in call.startStore => u \in store
       /\ (Returned /\ call.result = 500) => ~call.committed

C14_Witness ==
    /\ Returned
    /\ call.op = "update"
    /\ call.result = 200
    /\ call.deleted # <<>>
    /\ call.deleted[1] \in call.startStore
    /\ call.deleted[1] \notin store

\* C15: an update whose transaction failed has left the database, and so
\* the Listing row and every Image row of the listing, as the call found
\* it, has issued a compensating delete for every image it uploaded, and
\* (no storage delete failing) none of these objects is left.
C15_UpdateFailureRestores ==
    (Returned /\ call.op = "update" /\ call.cause = "persist")
    => /\ call.result = 500
       /\ db = call.snap
       /\ Len(call.uploaded) = call.nnew
       /\ \A k \in DOMAIN call.uploaded : call.uploaded[k] \in Range(call.issued)
       /\ ~call.delFault => \A k \in DOMAIN call.uploaded :
                                call.uploaded[k] \notin store

C15_Witness ==
    /\ Returned
    /\ call.op = "update"
    /\ call.cause = "persist"
    /\ call.faultAt = "utx_commit"
    /\ call.nnew = 2
    /\ call.deleted # <<>>
    /\ ~call.delFault

\* C16: after a successful delete of a listing no Listing row and no Image
\* row with its listing_id is in the database, and for every reference the
\* listing had a storage delete was issued, after the commit.
C16_DeleteRemovesEverything ==
    (Returned /\ call.op = "delete" /\ call.result = 200)
    => /\ call.committed
       /\ ListingRows(db, call.lid) = {}
       /\ ImageRows(db, call.lid) = {}
       /\ \A r \in ImageRows(call.snap, call.lid) : r.url \in Range(call.issued)

\* C17: delete_image_from_storage never raises; for a reference that is
\* not a URL of the bucket or names no object of the store (never
\* uploaded, or deleted before) it returns False and leaves the store as
\* it was; when it returns True it has removed exactly the named object,
\* which was there.
C17_StorageDeleteIsSoft ==
    (call.op = "storage_delete")
    => LET ref == call.issued[1]
       IN /\ call.cause = "none"
          /\ (~ParsesAsBucketUrl(ref) \/ ref \notin call.startStore)
             => (call.delFault /\ store = call.startStore)
          /\ (~call.delFault)
             => (ref \in call.startStore /\ store = call.startStore \ {ref})
          /\ call.delFault => store = call.startStore

\* a second delete of a reference whose object an earlier call removed
C17_Witness ==
    /\ call.op = "storage_delete"
    /\ call.issued[1] \in {Url(1, k) : k \in 1 .. MaxBlobs}
    /\ call.issued[1] \notin call.startStore
    /\ call.delFault
    /\ call.cause = "none"

\* C18: a create or update that failed in its persistence phase answers
\* 500, the failure of the call itself, and has attempted the compensating
\* delete of every uploaded reference, in order, also when one of these
\* deletes failed.
C18_CleanupFailureLogged ==
    (Returned /\ call.op \in {"create", "update"} /\ call.cause = "persist")
    => /\ call.result = 500
       /\ call.issued = call.uploaded

\* the first of two compensating deletes failed, the second was made
C18_Witness ==
    /\ Returned
    /\ call.op = "update"
    /\ call.cause = "persist"
    /\ call.delFault
    /\ Len(call.uploaded) = 2
    /\ call.uploaded[1] \in store
    /\ call.uploaded[2] \notin store

\* url starts with the byte sequence pre
StartsWith(url, pre) ==
    Len(pre) <= Len(url) /\ SubSeq(url, 1, Len(pre)) = pre

\* the verifier of a URLPrefix token: it recomputes the HMAC over the
\* policy with its key and checks that the URL starts with the decoded
\* URLPrefix field
VerifyToken(token, url, key_b64) ==
    LET key == B64AnyToBytes(key_b64)
        pre == B64Decode(token.policy.prefix)
    IN /\ key.ok
       /\ token.sig = Hmac(key.bytes, token.policy)
       /\ pre.ok
       /\ StartsWith(url, pre.bytes)

KeyAbsentOrMalformed(k) ==
    \/ ~k.set
    \/ k.text = <<>>
    \/ ~B64AnyToBytes(k).ok
    \/ Len(B64AnyToBytes(k).bytes) < MinKeyBytes

\* C20: a signing call (sign_cdn_url, make_urlprefix_token) made while
\* the configured key is absent or malformed raises; it returns no token.
C20_SigningNeedsKey ==
    (call.op \in {"sign_cdn_url", "make_urlprefix_token"}
        /\ KeyAbsentOrMalformed(call.keyB64))
    => call.raised # "none"

\* Image rows that carry the listing_id of a feed entry
EntryImages(e) == {r \in db.images : r.lid = e.id}

\* C21: in a feed that get_home_listings returned, the hero image of every
\* listing is an image marked is_hero when the listing has one, otherwise
\* an image of least sort_order when the listing has an image, otherwise
\* null.
C21_FeedHeroImage ==
    (Returned /\ call.op = "feed" /\ call.result = 200
        /\ call.faultAt = "none")
    => \A k \in DOMAIN call.listings :
          LET e == call.listings[k]
              imgs == EntryImages(e)
              heroes == {r \in imgs : r.hero}
          IN /\ heroes # {}
                => \E r \in heroes : e.hero = SignedUrl(r.url)
             /\ (heroes = {} /\ imgs # {})
                => \E r \in imgs : /\ e.hero = SignedUrl(r.url)
                                   /\ \A q \in imgs : r.sort <= q.sort
             /\ imgs = {} => e.hero = NoUrl

\* the least integer n with n * b >= a
CeilDiv(a, b) == CHOOSE n \in 0 .. a : n * b >= a /\ (n = 0 \/ (n - 1) * b < a)

\* C22: a browse call with page >= 1 and 1 <= page_size <= 100 that
\* returned has total_pages = ceil(total_count / page_size) (0 for a count
\* of 0), has_previous = (page > 1), has_next = (page < total_pages) when
\* the page is not empty, and serves only listings that have an image.
C22_BrowsePagination ==
    (Returned /\ call.op = "browse" /\ call.result = 200)
    => /\ call.page >= 1 /\ call.pageSize \in 1 .. MaxPageSize
       /\ call.resp.total_items = call.total
       /\ call.resp.total_pages = CeilDiv(call.total, call.pageSize)
       /\ call.resp.has_previous = (call.page > 1)
       /\ (call.resp.homes # <<>>)
          => call.resp.has_next = (call.page < call.resp.total_pages)
       /\ \A k \in DOMAIN call.resp.homes :
             \E i \in db.images : i.lid = call.resp.homes[k].id

\* second page of two, one listing per page
C22_Witness ==
    /\ Returned
    /\ call.op = "browse"
    /\ call.result = 200
    /\ call.page = 2
    /\ call.pageSize = 1
    /\ call.total = 2
    /\ Len(call.resp.homes) = 1
    /\ call.resp.total_pages = 2
    /\ ~call.resp.has_next

\* C23: an account-creating request (create_user for the caller itself)
\* or a listing-creating request made for an owner that has a User row
\* already succeeds (201) and leaves the users table as it found it.
C23_UserCreateIfNotExists ==
    (/\ Returned
     /\ call.op \in {"create_user", "create"}
     /\ call.result # 403
     /\ ImageOwner(call.variant, call.caller, call.bodyOwner)
            \in call.snap.users)
    => /\ call.result = 201
       /\ db.users = call.snap.users

\* C24: a create_listing call (common.py) for any category, with 1..20
\* files, whose uploads all succeeded and whose database raised no fault,
\* returns 201 and has committed the Listing row in the category's table.
C24_GenericCreateAnyCategory ==
    (/\ Returned
     /\ call.op = "create"
     /\ call.variant = "generic"
     /\ call.nfiles \in 1 .. MaxImages
     /\ Len(call.tasks) = call.nfiles
     /\ \A k \in DOMAIN call.tasks : call.tasks[k] = "ok"
     /\ call.faultAt = "none")
    => /\ call.result = 201
       /\ \E r \in db.listings : r.id = call.lid /\ r.table = call.table

\* every Image row of d names an object of st
RowsHaveObjects(d, st) == \A r \in d.images : r.url \in st

\* C25: with a fault-free object store, every successful create, update
\* or delete call that found every Image row naming an object of the store
\* leaves it so; hence in every quiescent state after successful calls
\* every Image row's reference names an existing object.
C25_RowsNameObjects ==
    (/\ Returned
     /\ call.op \in {"create", "update", "delete"}
     /\ call.result \in {200, 201}
     /\ faults = 0
     /\ RowsHaveObjects(call.snap, call.startStore))
    => RowsHaveObjects(db, store)

\* C26: every object that an update call removed from the store was,
\* when the call started, referenced by an Image row of the listing the
\* call updates (or is one the call uploaded itself).
C26_UpdateDeletesOwnObjectsOnly ==
    (call.op = "update")
    => \A u \in call.startStore \ store :
           \E r \in call.snap.images : r.lid = call.lid /\ r.url = u

\* C27: when an update and a delete of the same listing_id, served
\* concurrently, have both returned, every Image row's listing_id names an
\* existing Listing row, and every object the update uploaded is
\* referenced by an Image row of an existing listing or is gone from the
\* store.
C27_RaceLeavesNoOrphans ==
    (Returned /\ call.op = "race")
    => /\ \A r \in db.images : \E l \in db.listings : l.id = r.lid
       /\ \A k \in DOMAIN call.upd.tasks :
             call.upd.tasks[k] = "ok"
             => \/ Url(call.upd.no, k) \notin store
                \/ \E r \in db.images :
                      /\ r.url = Url(call.upd.no, k)
                      /\ \E l \in db.listings : l.id = r.lid

\* the call is about to await an object-store operation: an upload task
\* is running, or a storage delete of a loop is due
AwaitsStorage ==
    \/ call.pc = "uploading"
    \/ call.pc = "post_delete" /\ call.idx <= Len(call.deleted)
    \/ call.pc = "cleanup" /\ call.idx <= Len(CleanupList(call))

\* C28: no create, update or delete call holds a pooled database
\* connection while it awaits an object-store upload or delete.
C28_NoConnectionAcrossStorage ==
    AwaitsStorage => ~call.conn

\* the listings that pages 1 .. n of browse serve in database d
ServedUpTo(d, n, page_size) ==
    UNION {Range(BrowsePage(d, p, page_size)) : p \in 1 .. n}

\* C29: the pagination data of a browse response agrees with what browse
\* serves in the same database: pages 1 .. total_pages hold exactly
\* total_items distinct listings, and has_next is true only if the next
\* page is not empty.
C29_PaginationConsistent ==
    (Returned /\ call.op = "browse" /\ call.result = 200)
    => /\ Cardinality(ServedUpTo(db, call.resp.total_pages, call.pageSize))
            = call.resp.total_items
       /\ call.resp.has_next
            => BrowsePage(db, call.page + 1, call.pageSize) # <<>>

\* C30: get_home_listings answers 200 only with all of the owner's
\* listings, each with all of its images; a failing query is answered
\* with an error.
C30_FeedCompleteOrError ==
    (Returned /\ call.op = "feed" /\ call.result = 200)
    => /\ {call.listings[k].id : k \in DOMAIN call.listings}
            = {r.id : r \in FeedHomeRows(db, call.owner)}
       /\ \A k \in DOMAIN call.listings :
             Range(call.listings[k].images)
                = FeedImageRows(db, call.owner, call.listings[k].id)

====
